---- MODULE Spec2Model ----
(***************************************************************************)
(* Model of gpt_reviewer (src/src/gpt_reviewer/__main__.py): the pipeline  *)
(* get_file -> get_review -> generate_report of main, run against a file   *)
(* system that holds the input file, the output directory and              *)
(* code_review.html.                                                       *)
(*                                                                         *)
(* Text is a sequence of characters; a character is a one-element string.  *)
(* Fixed markup fragments of the report are single symbols of that         *)
(* alphabet, so a report is a sequence over characters and fragments.      *)
(***************************************************************************)
EXTENDS Integers, Sequences, FiniteSets, TLC

VARIABLES
    inputFile,      \* inputFile[r]: what the path given to run r with -i holds
    pc,             \* pc[r]: where run r of main stands
    file_content,   \* file_content[r]: get_file's result in run r
    review,         \* review[r]: get_review's result in run r
    html_template,  \* content of templates/code_review_template.html
    final_report,   \* final_report[r]: add_content_to_html's result in run r
    dirExists,      \* whether output_dir exists
    outFile,        \* content of output_dir/code_review.html, or NoFile
    requests,       \* requests[r]: chat-completion requests sent by run r
    raised,         \* raised[r]: the exception that ended run r, or "none"
    fsBefore,       \* fsBefore[r]: the output directory and file as run r began
    events          \* the requests and file-system calls so far, in order

vars == <<inputFile, pc, file_content, review, html_template, final_report,
          dirExists, outFile, requests, raised, fsBefore, events>>

\* Longest input file of the loader specification, in characters.
MaxFileLen == 10

Runs == {1, 2}

\* A path of the file system: a regular file with its content, or no file.
NoFile == [isfile |-> FALSE, data |-> <<>>]
File(data) == [isfile |-> TRUE, data |-> data]

\* An optional value (None, or a value) is a sequence of at most one element.
None == <<>>
Some(v) == <<v>>

LF == "\n"
CR == "\r"
FileChars == {"a", LF, CR}

Files == {File(d) : d \in UNION {[1..n -> FileChars] : n \in 0..MaxFileLen}}

----------------------------------------------------------------------------
(* get_file *)

Digits == <<"0", "1", "2", "3", "4", "5", "6", "7", "8", "9">>

\* The decimal digits of n >= 0, as f"{n}" formats them.
RECURSIVE Str(_)
Str(n) ==
    IF n < 10 THEN <<Digits[n + 1]>>
    ELSE Str(n \div 10) \o <<Digits[(n % 10) + 1]>>

\* file.readlines() of a file opened in text mode ('r', newline=None): the
\* terminators "\n", "\r" and "\r\n" all end a line and are all read as "\n";
\* a last line without terminator is kept as it is.
RECURSIVE ReadLinesFrom(_, _, _)
ReadLinesFrom(s, i, cur) ==
    IF i > Len(s) THEN (IF cur = <<>> THEN <<>> ELSE <<cur>>)
    ELSE IF s[i] = LF THEN <<cur \o <<LF>>>> \o ReadLinesFrom(s, i + 1, <<>>)
    ELSE IF s[i] = CR
         THEN <<cur \o <<LF>>>> \o
              ReadLinesFrom(s, IF i < Len(s) /\ s[i + 1] = LF THEN i + 2 ELSE i + 1, <<>>)
    ELSE ReadLinesFrom(s, i + 1, cur \o <<s[i]>>)

readlines(s) == ReadLinesFrom(s, 1, <<>>)

\* ''.join(f"{i + 1}: {line}" for i, line in enumerate(lines)), from index i on.
RECURSIVE JoinNumberedFrom(_, _)
JoinNumberedFrom(lines, i) ==
    IF i >= Len(lines) THEN <<>>
    ELSE Str(i + 1) \o <<":", " ">> \o lines[i + 1] \o JoinNumberedFrom(lines, i + 1)

\* A numbering that starts at 0 instead of 1.
JoinNumberedZeroBased(lines) ==
    LET RECURSIVE J(_)
        J(i) == IF i >= Len(lines) THEN <<>>
                ELSE Str(i) \o <<":", " ">> \o lines[i + 1] \o J(i + 1)
    IN J(0)

JoinNumbered(lines) == JoinNumberedFrom(lines, 0)

\* The check of line 28 left out.
isfileUnchecked(f) == TRUE

\* os.path.isfile(normalized_path)
isfile(f) == f.isfile

\* get_file on a regular file: the numbered content.
get_file(f) == JoinNumbered(readlines(f.data))

\* get_file as a step of run r: raises FileNotFoundError (the run aborts) when
\* the path is no regular file, returns the numbered content otherwise.
GetFile(r) ==
    /\ pc[r] = "get_file"
    /\ IF ~isfile(inputFile[r])
       THEN /\ pc' = [pc EXCEPT ![r] = "aborted"]
            /\ raised' = [raised EXCEPT ![r] = "FileNotFoundError"]
            /\ UNCHANGED file_content
       ELSE /\ file_content' = [file_content EXCEPT ![r] = get_file(inputFile[r])]
            /\ pc' = [pc EXCEPT ![r] = "get_review"]
            /\ UNCHANGED raised
    /\ UNCHANGED <<inputFile, review, html_template, final_report, dirExists, outFile,
                   requests, fsBefore, events>>

----------------------------------------------------------------------------
(* The review text and ET.fromstring *)

\* The review is a sequence of tokens: a start tag, an end tag, or one
\* character of character data; the character "<" of an element's text is
\* written as the entity "&lt;".
StartTag(tag) == [k |-> "open", v |-> tag]
EndTag(tag) == [k |-> "close", v |-> tag]
Data(c) == [k |-> "data", v |-> c]

\* The character a character-data token stands for.
Unescape(c) == IF c = "&lt;" THEN "<" ELSE c

\* An element of the parsed tree: its tag, its text (None when no character
\* data precedes its first child or its end) and its children in order.
Element(tag, text, children) == [tag |-> tag, text |-> text, children |-> children]

\* One parser step on token t with the stack of open elements st (innermost
\* last) and the finished document element doc (None until the root closed).
\* Character data after a child is that child's tail, which no code reads.
ParseStep(t, st, doc) ==
    LET n == Len(st) IN
    CASE t.k = "open" ->
            IF n = 0 /\ doc # None THEN [ok |-> FALSE, st |-> st, doc |-> doc]
            ELSE [ok |-> TRUE, st |-> Append(st, Element(t.v, None, <<>>)), doc |-> doc]
      [] t.k = "data" ->
            IF n = 0 THEN [ok |-> FALSE, st |-> st, doc |-> doc]
            ELSE IF st[n].children # <<>> THEN [ok |-> TRUE, st |-> st, doc |-> doc]
            ELSE LET old == IF st[n].text = None THEN <<>> ELSE st[n].text[1]
                     top == [st[n] EXCEPT !.text = Some(Append(old, Unescape(t.v)))]
                 IN [ok |-> TRUE, st |-> [st EXCEPT ![n] = top], doc |-> doc]
      [] t.k = "close" ->
            IF n = 0 \/ st[n].tag # t.v THEN [ok |-> FALSE, st |-> st, doc |-> doc]
            ELSE IF n = 1 THEN [ok |-> TRUE, st |-> <<>>, doc |-> Some(st[1])]
            ELSE LET parent == [st[n - 1] EXCEPT !.children = Append(@, st[n])]
                 IN [ok |-> TRUE,
                     st |-> [SubSeq(st, 1, n - 1) EXCEPT ![n - 1] = parent],
                     doc |-> doc]

RECURSIVE ParseFrom(_, _, _, _)
ParseFrom(tokens, i, st, doc) ==
    IF i > Len(tokens)
    THEN IF st = <<>> /\ doc # None THEN [ok |-> TRUE, root |-> doc[1]]
         ELSE [ok |-> FALSE, root |-> Element("", None, <<>>)]
    ELSE LET step == ParseStep(tokens[i], st, doc) IN
         IF step.ok THEN ParseFrom(tokens, i + 1, step.st, step.doc)
         ELSE [ok |-> FALSE, root |-> Element("", None, <<>>)]

\* ET.fromstring(review): the document element, or ok = FALSE for ParseError
\* (no element, junk before or after the document element, a mismatched or
\* missing end tag).
fromstring(tokens) == ParseFrom(tokens, 1, <<>>, None)

----------------------------------------------------------------------------
(* add_content_to_html *)

\* element.find(tag): the first child with that tag, or None.
find(e, tag) ==
    IF \E i \in 1..Len(e.children) : e.children[i].tag = tag
    THEN Some(e.children[CHOOSE i \in 1..Len(e.children) :
                            /\ e.children[i].tag = tag
                            /\ \A j \in 1..(i - 1) : e.children[j].tag # tag])
    ELSE None

\* The text with "<" escaped, as a renderer that escapes would embed it.
FormatEscaped(text) ==
    LET t == IF text = None THEN <<"N", "o", "n", "e">> ELSE text[1]
        RECURSIVE Esc(_)
        Esc(i) == IF i > Len(t) THEN <<>>
                  ELSE (IF t[i] = "<" THEN <<"&lt;">> ELSE <<t[i]>>) \o Esc(i + 1)
    IN Esc(1)

\* f"{text}" of an element's text: the text, or "None" for None.
Format(text) == IF text = None THEN <<"N", "o", "n", "e">> ELSE text[1]

H2General == "<h2>General Observations</h2><ul>"
H2Comments == "<h2>Specific Comments</h2><ul>"
H2Suggestions == "<h2>Improvement Suggestions</h2><ul>"
Closing == "</div></body></html>"

\* f"<li>{e.text}</li>"
TextItem(e) == <<"<li>">> \o Format(e.text) \o <<"</li>">>

\* The loop stopping one child early.
TextItemsButLast(children, i) ==
    LET RECURSIVE T(_)
        T(k) == IF k >= Len(children) THEN <<>>
                ELSE TextItem(children[k]) \o T(k + 1)
    IN T(i)

\* The loop over a section's children of lines 103-104 and 117-118, from
\* child i on.
RECURSIVE TextItemsFrom(_, _)
TextItemsFrom(children, i) ==
    IF i > Len(children) THEN <<>>
    ELSE TextItem(children[i]) \o TextItemsFrom(children, i + 1)

\* Whether comment.find('Location').text and comment.find('Feedback').text
\* can be read (AttributeError on None otherwise).
CommentReadable(c) == find(c, "Location") # None /\ find(c, "Feedback") # None

\* f"<li><strong>{location}:</strong> {feedback}</li>"
CommentItem(c) ==
    <<"<li><strong>">> \o Format(find(c, "Location")[1].text) \o <<":</strong> ">>
        \o Format(find(c, "Feedback")[1].text) \o <<"</li>">>

\* The loop of lines 109-112 from child i on.
RECURSIVE CommentItemsFrom(_, _)
CommentItemsFrom(children, i) ==
    IF i > Len(children) THEN <<>>
    ELSE CommentItem(children[i]) \o CommentItemsFrom(children, i + 1)

\* The report of lines 99-123 for the sections g, c and s.
Report(template, g, c, s) ==
    template
    \o <<H2General>> \o TextItemsFrom(g.children, 1) \o <<"</ul>">>
    \o <<H2Comments>> \o CommentItemsFrom(c.children, 1) \o <<"</ul>">>
    \o <<H2Suggestions>> \o TextItemsFrom(s.children, 1) \o <<"</ul>">>
    \o <<Closing>>

\* The loop of lines 109-112 passing over the comments it cannot read.
ReadableOnly(c) ==
    [c EXCEPT !.children =
        LET RECURSIVE Keep(_)
            Keep(i) == IF i > Len(c.children) THEN <<>>
                       ELSE (IF CommentReadable(c.children[i])
                             THEN <<c.children[i]>> ELSE <<>>) \o Keep(i + 1)
        IN Keep(1)]

\* A renderer that renders what it can: no section for a missing one, no item
\* for a comment without Location or Feedback.
add_content_leniently(template, e) ==
    LET sec(tag) == IF find(e, tag) = None THEN Element(tag, None, <<>>)
                    ELSE find(e, tag)[1]
    IN [err |-> "none",
        html |-> Report(template, sec("GeneralObservations"),
                        ReadableOnly(sec("SpecificComments")),
                        sec("ImprovementSuggestions"))]

\* add_content_to_html(html_template, root): the report, or the exception it
\* raises: TypeError iterating the None of a missing section, AttributeError
\* reading .text of the None of a missing Location or Feedback. The sections
\* are rendered in order, so the first failing one decides.
add_content_to_html(template, e) ==
    LET g == find(e, "GeneralObservations")
        c == find(e, "SpecificComments")
        s == find(e, "ImprovementSuggestions")
    IN IF g = None THEN [err |-> "TypeError", html |-> <<>>]
       ELSE IF c = None THEN [err |-> "TypeError", html |-> <<>>]
       ELSE IF \E i \in 1..Len(c[1].children) : ~CommentReadable(c[1].children[i])
            THEN [err |-> "AttributeError", html |-> <<>>]
       ELSE IF s = None THEN [err |-> "TypeError", html |-> <<>>]
       ELSE [err |-> "none", html |-> Report(template, g[1], c[1], s[1])]

----------------------------------------------------------------------------
(* The replies of the chat-completion service *)

\* Most items a review document of the renderer specification holds.
MaxItems == 2

Leaf(tag, text) == Element(tag, text, <<>>)

\* The tokens of an element written out, "<" of its text as "&lt;".
RECURSIVE Serialize(_)
Serialize(e) ==
    LET text == IF e.text = None THEN <<>> ELSE e.text[1]
        RECURSIVE Kids(_)
        Kids(i) == IF i > Len(e.children) THEN <<>>
                   ELSE Serialize(e.children[i]) \o Kids(i + 1)
    IN <<StartTag(e.tag)>>
       \o [i \in 1..Len(text) |-> Data(IF text[i] = "<" THEN "&lt;" ELSE text[i])]
       \o Kids(1) \o <<EndTag(e.tag)>>

ObservationItems ==
    {Leaf("Observation", t) : t \in {None, Some(<<"x">>), Some(<<"<">>)}}
        \cup {Leaf("Note", Some(<<"x">>))}

CommentItems ==
    { Element("Comment", None, <<Leaf("Location", Some(<<"x">>)), Leaf("Feedback", Some(<<"y">>))>>),
      Element("Comment", None, <<Leaf("Feedback", Some(<<"<">>)), Leaf("Location", None)>>),
      Element("Remark", None, <<Leaf("Location", Some(<<"x">>)), Leaf("Feedback", None),
                                Leaf("Severity", Some(<<"y">>))>>),
      Element("Comment", None, <<Leaf("Location", Some(<<"x">>))>>),
      Element("Comment", None, <<Leaf("Feedback", Some(<<"y">>))>>) }

SuggestionItems == {Leaf("Suggestion", Some(<<"x">>)), Leaf("Suggestion", Some(<<"y">>))}

SeqsOf(S, n) == [1..n -> S]

\* A section with the given children, or no section for None.
Section(tag, items) == IF items = None THEN <<>> ELSE <<Element(tag, None, items[1])>>

\* Sequences of exactly n items of S, and no section at all when n = 0 too.
SectionChoices(S, n) ==
    {Some(q) : q \in SeqsOf(S, n)} \cup (IF n = 0 THEN {None} ELSE {})

\* The review documents with at most n items: the root tag is CodeReview or
\* another tag; each of the three sections is present or missing.
DocsUpTo(n) ==
    UNION { { Element(rt, None,
                      Section("GeneralObservations", g)
                      \o Section("SpecificComments", c)
                      \o Section("ImprovementSuggestions", sg)) :
                g \in SectionChoices(ObservationItems, k[1]),
                c \in SectionChoices(CommentItems, k[2]),
                sg \in SectionChoices(SuggestionItems, k[3]),
                rt \in {"CodeReview", "Review"} } :
            k \in {x \in (0..n) \X (0..n) \X (0..n) : x[1] + x[2] + x[3] <= n} }

\* A reply as the service may send it: the document, the document cut short,
\* the document followed by more text, or with a wrong last end tag.
Variants(t) ==
    { t, SubSeq(t, 1, Len(t) - 1), Append(t, Data("x")),
      [t EXCEPT ![Len(t)] = EndTag("Wrong")] }

Reviews == UNION {Variants(Serialize(d)) : d \in DocsUpTo(MaxItems)}
               \cup {<<>>, <<Data("x")>>}

Templates == {<<>>, <<"<html><body><div>">>, <<"<html><body><div>", "x", "<li>">>}

\* The replies the pipeline specifications draw from.
SampleDocs ==
    LET doc(g, c, sg) == Element("CodeReview", None,
                                 Section("GeneralObservations", g)
                                 \o Section("SpecificComments", c)
                                 \o Section("ImprovementSuggestions", sg))
        good == Element("Comment", None,
                        <<Leaf("Location", Some(<<"x">>)), Leaf("Feedback", Some(<<"y">>))>>)
        bad == Element("Comment", None, <<Leaf("Location", Some(<<"x">>))>>)
    IN { doc(Some(<<>>), Some(<<>>), Some(<<>>)),
         doc(Some(<<Leaf("Observation", Some(<<"x">>))>>), Some(<<>>),
             Some(<<Leaf("Suggestion", Some(<<"y">>))>>)),
         doc(Some(<<Leaf("Observation", Some(<<"<">>))>>), Some(<<good>>), Some(<<>>)),
         doc(Some(<<>>), Some(<<good, bad>>), Some(<<>>)),
         doc(Some(<<Leaf("Observation", Some(<<"x">>))>>), Some(<<>>), None) }

SampleReviews ==
    {Serialize(d) : d \in SampleDocs}
        \cup {SubSeq(Serialize(d), 1, Len(Serialize(d)) - 1) : d \in SampleDocs}

----------------------------------------------------------------------------
(* main and generate_report, one action per step of run r *)

Terminated(r) == pc[r] \in {"done", "aborted"}

Event(r, what) == [run |-> r, op |-> what]

\* Run r goes to where, having raised nothing.
Goes(r, where) ==
    /\ pc' = [pc EXCEPT ![r] = where]
    /\ UNCHANGED raised

\* Run r ends with an uncaught exception.
Raises(r, exception) ==
    /\ pc' = [pc EXCEPT ![r] = "aborted"]
    /\ raised' = [raised EXCEPT ![r] = exception]

\* open_ai_client = OpenAI()
CreateClient(r) ==
    /\ pc[r] = "start"
    /\ Goes(r, "get_file")
    /\ fsBefore' = [fsBefore EXCEPT ![r] = <<dirExists, outFile>>]
    /\ UNCHANGED <<inputFile, file_content, review, html_template, final_report,
                   dirExists, outFile, requests, events>>

\* OpenAI() raises (no credential in the environment).
CreateClientFails(r) ==
    /\ pc[r] = "start"
    /\ Raises(r, "OpenAIError")
    /\ fsBefore' = [fsBefore EXCEPT ![r] = <<dirExists, outFile>>]
    /\ UNCHANGED <<inputFile, file_content, review, html_template, final_report,
                   dirExists, outFile, requests, events>>

\* get_review: one request, answered with any of the replies.
GetReviewFrom(r, replies) ==
    /\ pc[r] = "get_review"
    /\ requests' = [requests EXCEPT ![r] = @ + 1]
    /\ events' = Append(events, Event(r, "request"))
    /\ \E reply \in replies : review' = [review EXCEPT ![r] = reply]
    /\ Goes(r, "generate_report")
    /\ UNCHANGED <<inputFile, file_content, html_template, final_report, dirExists,
                   outFile, fsBefore>>

GetReview(r) == GetReviewFrom(r, SampleReviews)

\* A failed request sent once more instead of raising.
GetReviewRetries(r) ==
    /\ pc[r] = "get_review"
    /\ requests[r] < 2
    /\ requests' = [requests EXCEPT ![r] = @ + 1]
    /\ events' = Append(events, Event(r, "request"))
    /\ UNCHANGED <<inputFile, pc, file_content, review, html_template, final_report,
                   dirExists, outFile, raised, fsBefore>>

\* get_review: the request fails (network, authentication, rate limit) and
\* the error propagates.
GetReviewFails(r) ==
    /\ pc[r] = "get_review"
    /\ requests' = [requests EXCEPT ![r] = @ + 1]
    /\ events' = Append(events, Event(r, "request"))
    /\ Raises(r, "APIError")
    /\ UNCHANGED <<inputFile, file_content, review, html_template, final_report,
                   dirExists, outFile, fsBefore>>

\* generate_report up to final_report: ET.fromstring, reading the template,
\* add_content_to_html.
generate_html(text, template) ==
    LET parsed == fromstring(text) IN
    IF ~parsed.ok THEN [err |-> "ParseError", html |-> <<>>]
    ELSE add_content_to_html(template, parsed.root)

Render(r) ==
    /\ pc[r] = "generate_report"
    /\ LET res == generate_html(review[r], html_template) IN
       IF res.err = "none"
       THEN /\ final_report' = [final_report EXCEPT ![r] = res.html]
            /\ Goes(r, "exists")
       ELSE /\ Raises(r, res.err)
            /\ UNCHANGED final_report
    /\ UNCHANGED <<inputFile, file_content, review, html_template, dirExists, outFile,
                   requests, fsBefore, events>>

\* if not os.path.exists(output_dir)
Exists(r) ==
    /\ pc[r] = "exists"
    /\ Goes(r, IF dirExists THEN "open" ELSE "makedirs")
    /\ events' = Append(events, Event(r, "exists"))
    /\ UNCHANGED <<inputFile, file_content, review, html_template, final_report,
                   dirExists, outFile, requests, fsBefore>>

\* os.makedirs(output_dir), the directory absent.
Makedirs(r) ==
    /\ pc[r] = "makedirs"
    /\ ~dirExists
    /\ dirExists' = TRUE
    /\ Goes(r, "open")
    /\ events' = Append(events, Event(r, "makedirs"))
    /\ UNCHANGED <<inputFile, file_content, review, html_template, final_report,
                   outFile, requests, fsBefore>>

\* os.makedirs(output_dir) raises FileExistsError: the directory was created
\* since line 138 found it absent.
MakedirsFileExists(r) ==
    /\ pc[r] = "makedirs"
    /\ dirExists
    /\ Raises(r, "FileExistsError")
    /\ UNCHANGED <<inputFile, file_content, review, html_template, final_report,
                   dirExists, outFile, requests, fsBefore, events>>

\* os.makedirs(output_dir) raises another OSError (no permission, ...).
MakedirsFails(r) ==
    /\ pc[r] = "makedirs"
    /\ ~dirExists
    /\ Raises(r, "OSError in makedirs")
    /\ UNCHANGED <<inputFile, file_content, review, html_template, final_report,
                   dirExists, outFile, requests, fsBefore, events>>

\* The file as open(output_file, 'r+') would leave it: not truncated.
OpenedWithoutTruncation(f) == File(f.data)

\* The file as open(output_file, 'w') leaves it: created, or truncated.
Opened(f) == File(<<>>)

Open(r) ==
    /\ pc[r] = "open"
    /\ outFile' = Opened(outFile)
    /\ Goes(r, "write")
    /\ events' = Append(events, Event(r, "open"))
    /\ UNCHANGED <<inputFile, file_content, review, html_template, final_report,
                   dirExists, requests, fsBefore>>

\* open(output_file, 'w') raises (no permission, ...).
OpenFails(r) ==
    /\ pc[r] = "open"
    /\ Raises(r, "OSError in open")
    /\ UNCHANGED <<inputFile, file_content, review, html_template, final_report,
                   dirExists, outFile, requests, fsBefore, events>>

\* The data appended to the file, as a descriptor opened with 'a' writes.
Appended(old, data) == old \o data

\* The data written at offset 0, where the descriptor of this run stands,
\* over what the file holds by then.
Written(old, data) == data \o SubSeq(old, Len(data) + 1, Len(old))

\* file.write(final_report) and the close of the with block.
Write(r) ==
    /\ pc[r] = "write"
    /\ outFile' = File(Written(outFile.data, final_report[r]))
    /\ Goes(r, "written")
    /\ events' = Append(events, Event(r, "write"))
    /\ UNCHANGED <<inputFile, file_content, review, html_template, final_report,
                   dirExists, requests, fsBefore>>

\* The write fails part-way (disk full, ...): a proper prefix is on disk.
WriteFails(r) ==
    /\ pc[r] = "write"
    /\ \E k \in 0..(Len(final_report[r]) - 1) :
         outFile' = File(Written(outFile.data, SubSeq(final_report[r], 1, k)))
    /\ Raises(r, "OSError in write")
    /\ events' = Append(events, Event(r, "write"))
    /\ UNCHANGED <<inputFile, file_content, review, html_template, final_report,
                   dirExists, requests, fsBefore>>

\* logger.info('Done')
Done(r) ==
    /\ pc[r] = "written"
    /\ Goes(r, "done")
    /\ UNCHANGED <<inputFile, file_content, review, html_template, final_report,
                   dirExists, outFile, requests, fsBefore, events>>

----------------------------------------------------------------------------
(* Two runs of main, one after the other, on the same output directory. *)

PipelineFiles == {NoFile, File(<<"a", LF, "b">>)}

Init ==
    /\ inputFile \in [Runs -> PipelineFiles]
    /\ pc = [r \in Runs |-> IF r = 1 THEN "start" ELSE "idle"]
    /\ file_content = [r \in Runs |-> <<>>]
    /\ review = [r \in Runs |-> <<>>]
    /\ html_template = <<"<html><body><div>">>
    /\ final_report = [r \in Runs |-> <<>>]
    /\ dirExists \in BOOLEAN
    /\ outFile = NoFile
    /\ requests = [r \in Runs |-> 0]
    /\ raised = [r \in Runs |-> "none"]
    /\ fsBefore = [r \in Runs |-> <<FALSE, NoFile>>]
    /\ events = <<>>

\* The program is started again once the runs before are over.
Launch(r) ==
    /\ pc[r] = "idle"
    /\ \A q \in Runs : q < r => Terminated(q)
    /\ pc' = [pc EXCEPT ![r] = "start"]
    /\ UNCHANGED <<inputFile, file_content, review, html_template, final_report,
                   dirExists, outFile, requests, raised, fsBefore, events>>

\* os.makedirs is reached with the directory present only when another run
\* created it in between, so MakedirsFileExists is no step of this
\* specification (NoRaceInTurn).
Next ==
    \E r \in Runs :
        \/ Launch(r)
        \/ CreateClient(r)
        \/ CreateClientFails(r)
        \/ GetFile(r)
        \/ GetReview(r)
        \/ GetReviewFails(r)
        \/ Render(r)
        \/ Exists(r)
        \/ Makedirs(r)
        \/ MakedirsFails(r)
        \/ Open(r)
        \/ OpenFails(r)
        \/ Write(r)
        \/ WriteFails(r)
        \/ Done(r)

Spec == Init /\ [][Next]_vars

NoRaceInTurn == \A r \in Runs : ~(pc[r] = "makedirs" /\ dirExists)

----------------------------------------------------------------------------
(* Two instances of main running at once on the same output directory. *)

InitConcurrent ==
    /\ inputFile \in [Runs -> PipelineFiles]
    /\ pc = [r \in Runs |-> "start"]
    /\ file_content = [r \in Runs |-> <<>>]
    /\ review = [r \in Runs |-> <<>>]
    /\ html_template = <<"<html><body><div>">>
    /\ final_report = [r \in Runs |-> <<>>]
    /\ dirExists \in BOOLEAN
    /\ outFile = NoFile
    /\ requests = [r \in Runs |-> 0]
    /\ raised = [r \in Runs |-> "none"]
    /\ fsBefore = [r \in Runs |-> <<FALSE, NoFile>>]
    /\ events = <<>>

NextConcurrent ==
    \E r \in Runs :
        \/ CreateClient(r)
        \/ CreateClientFails(r)
        \/ GetFile(r)
        \/ GetReview(r)
        \/ GetReviewFails(r)
        \/ Render(r)
        \/ Exists(r)
        \/ Makedirs(r)
        \/ MakedirsFileExists(r)
        \/ MakedirsFails(r)
        \/ Open(r)
        \/ OpenFails(r)
        \/ Write(r)
        \/ WriteFails(r)
        \/ Done(r)

SpecConcurrent == InitConcurrent /\ [][NextConcurrent]_vars

----------------------------------------------------------------------------
(* The renderer alone: generate_report's rendering of every reply. *)

InitRender ==
    /\ inputFile = [r \in Runs |-> NoFile]
    /\ pc = [r \in Runs |-> IF r = 1 THEN "get_review" ELSE "idle"]
    /\ file_content = [r \in Runs |-> <<>>]
    /\ review = [r \in Runs |-> <<>>]
    /\ html_template \in Templates
    /\ final_report = [r \in Runs |-> <<>>]
    /\ dirExists = FALSE
    /\ outFile = NoFile
    /\ requests = [r \in Runs |-> 0]
    /\ raised = [r \in Runs |-> "none"]
    /\ fsBefore = [r \in Runs |-> <<FALSE, NoFile>>]
    /\ events = <<>>

NextRender == GetReviewFrom(1, Reviews) \/ Render(1)

SpecRender == InitRender /\ [][NextRender]_vars

----------------------------------------------------------------------------
(* The loader alone: get_file applied to every file up to MaxFileLen. *)

InitLoader ==
    /\ \E f \in Files \cup {NoFile} : inputFile = [r \in Runs |-> f]
    /\ pc = [r \in Runs |-> IF r = 1 THEN "get_file" ELSE "idle"]
    /\ file_content = [r \in Runs |-> <<>>]
    /\ review = [r \in Runs |-> <<>>]
    /\ html_template = <<>>
    /\ final_report = [r \in Runs |-> <<>>]
    /\ dirExists = FALSE
    /\ outFile = NoFile
    /\ requests = [r \in Runs |-> 0]
    /\ raised = [r \in Runs |-> "none"]
    /\ fsBefore = [r \in Runs |-> <<FALSE, NoFile>>]
    /\ events = <<>>

NextLoader == GetFile(1)

SpecLoader == InitLoader /\ [][NextLoader]_vars

----------------------------------------------------------------------------
(* Claims about get_file (SpecLoader) *)

\* The lines of a file as it is stored: each line ends with the terminator the
\* file holds ("\n", "\r" or "\r\n"), unchanged.
RECURSIVE RawLinesFrom(_, _, _)
RawLinesFrom(s, i, cur) ==
    IF i > Len(s) THEN (IF cur = <<>> THEN <<>> ELSE <<cur>>)
    ELSE IF s[i] = CR /\ i < Len(s) /\ s[i + 1] = LF
         THEN <<cur \o <<CR, LF>>>> \o RawLinesFrom(s, i + 2, <<>>)
    ELSE IF s[i] \in {CR, LF}
         THEN <<cur \o <<s[i]>>>> \o RawLinesFrom(s, i + 1, <<>>)
    ELSE RawLinesFrom(s, i + 1, cur \o <<s[i]>>)

RawLines(s) == RawLinesFrom(s, 1, <<>>)

\* A stored line with its terminator, if it has one, replaced by "\n".
TextLine(line) ==
    LET n == Len(line) IN
    IF n >= 2 /\ line[n - 1] = CR /\ line[n] = LF THEN SubSeq(line, 1, n - 2) \o <<LF>>
    ELSE IF n >= 1 /\ line[n] = CR THEN SubSeq(line, 1, n - 1) \o <<LF>>
    ELSE line

\* The number a sequence of decimal digits denotes.
RECURSIVE DecimalValue(_)
DecimalValue(ds) ==
    IF ds = <<>> THEN 0
    ELSE 10 * DecimalValue(SubSeq(ds, 1, Len(ds) - 1))
         + (CHOOSE d \in 0..9 : Digits[d + 1] = ds[Len(ds)])

\* The first n numbered pieces, built from the last piece backwards.
RECURSIVE NumberedPieces(_, _)
NumberedPieces(lines, n) ==
    IF n = 0 THEN <<>>
    ELSE NumberedPieces(lines, n - 1) \o Str(n) \o <<":", " ">> \o lines[n]

Loaded == pc[1] = "get_review"

\* C1 as stated: for a regular file with N lines, get_file returns the N pieces
\* "<i+1>: <line i>" in file order, line i being the stored line unchanged,
\* its terminator included.
C1_LinesUnchanged ==
    Loaded =>
        LET lines == RawLines(inputFile[1].data)
        IN file_content[1] = NumberedPieces(lines, Len(lines))

\* C1 amended: for a regular file with N lines, get_file returns the N pieces
\* "<i+1>: <line i>" in file order, the number in decimal without leading
\* zero, line i being the stored line with its terminator ("\n", "\r" or
\* "\r\n"), if it has one, read as "\n".
C1_NumberedLines ==
    Loaded =>
        LET raw == RawLines(inputFile[1].data)
            lines == [i \in 1..Len(raw) |-> TextLine(raw[i])]
        IN /\ file_content[1] = NumberedPieces(lines, Len(lines))
           /\ \A n \in 1..Len(lines) :
                /\ DecimalValue(Str(n)) = n
                /\ Str(n)[1] # "0"

\* A loaded file of ten lines, so that a number of two digits is written,
\* one of the lines ended by "\r".
C1_Witness ==
    /\ Loaded
    /\ Len(RawLines(inputFile[1].data)) >= 10
    /\ \E i \in 1..Len(inputFile[1].data) : inputFile[1].data[i] = CR

----------------------------------------------------------------------------
(* Claims about the renderer (SpecRender) *)

\* Run 1 has rendered its report; run 1 is past the rendering either way.
Rendered == pc[1] = "exists"
RenderOver == pc[1] \in {"exists", "aborted"}

Doc == fromstring(review[1]).root

SectionTags == <<"GeneralObservations", "SpecificComments", "ImprovementSuggestions">>

\* The children of the first child of e with that tag.
ChildrenOf(e, tag) ==
    LET first == CHOOSE i \in 1..Len(e.children) :
                    /\ e.children[i].tag = tag
                    /\ \A j \in 1..(i - 1) : e.children[j].tag # tag
    IN e.children[first].children

HasChild(e, tag) == \E i \in 1..Len(e.children) : e.children[i].tag = tag

\* The text of an element as Python formats it into a string.
TextOf(e) == IF e.text = None THEN <<"N", "o", "n", "e">> ELSE e.text[1]

\* The report after the template.
Body == SubSeq(final_report[1], Len(html_template) + 1, Len(final_report[1]))

\* The least index of x in seq at or after from, Len(seq) + 1 if there is none.
IndexFrom(seq, x, from) ==
    IF \E i \in from..Len(seq) : seq[i] = x
    THEN CHOOSE i \in from..Len(seq) :
            seq[i] = x /\ \A j \in from..(i - 1) : seq[j] # x
    ELSE Len(seq) + 1

\* The part of the body between the heading and the next one.
Between(heading, next) ==
    SubSeq(Body, IndexFrom(Body, heading, 1) + 1, IndexFrom(Body, next, 1) - 1)

\* The list items of a part of the report: what stands between each opener
\* and the next "</li>".
RECURSIVE ItemsFrom(_, _, _)
ItemsFrom(seg, i, opener) ==
    IF i > Len(seg) THEN <<>>
    ELSE IF seg[i] = opener
         THEN LET j == IndexFrom(seg, "</li>", i + 1)
              IN <<SubSeq(seg, i + 1, j - 1)>> \o ItemsFrom(seg, j + 1, opener)
    ELSE ItemsFrom(seg, i + 1, opener)

Contains(seq, part) ==
    \E i \in 1..(Len(seq) - Len(part) + 1) : SubSeq(seq, i, i + Len(part) - 1) = part

GeneralItems == ItemsFrom(Between(H2General, H2Comments), 1, "<li>")
CommentListItems == ItemsFrom(Between(H2Comments, H2Suggestions), 1, "<li><strong>")
SuggestionListItems == ItemsFrom(Between(H2Suggestions, Closing), 1, "<li>")

\* C3: for a document with G children under GeneralObservations, C comments
\* (each with Location and Feedback) under SpecificComments and S children
\* under ImprovementSuggestions, the report holds exactly G, C and S list
\* items in the respective sections, in document order, and every comment's
\* item contains its location text and its feedback text.
C3_ItemsPerSection ==
    Rendered =>
        LET g == ChildrenOf(Doc, "GeneralObservations")
            c == ChildrenOf(Doc, "SpecificComments")
            s == ChildrenOf(Doc, "ImprovementSuggestions")
            loc(k) == c[k].children[CHOOSE i \in 1..Len(c[k].children) :
                                        c[k].children[i].tag = "Location"]
            fb(k) == c[k].children[CHOOSE i \in 1..Len(c[k].children) :
                                       c[k].children[i].tag = "Feedback"]
        IN /\ Len(GeneralItems) = Len(g)
           /\ \A k \in 1..Len(g) : GeneralItems[k] = TextOf(g[k])
           /\ Len(CommentListItems) = Len(c)
           /\ \A k \in 1..Len(c) :
                /\ Contains(CommentListItems[k], TextOf(loc(k)))
                /\ Contains(CommentListItems[k], TextOf(fb(k)))
           /\ Len(SuggestionListItems) = Len(s)
           /\ \A k \in 1..Len(s) : SuggestionListItems[k] = TextOf(s[k])

\* A report with two different observations and no comment.
C3_Witness ==
    /\ Rendered
    /\ Len(GeneralItems) = 2
    /\ GeneralItems[1] # GeneralItems[2]
    /\ Len(CommentListItems) = 0

\* The three-section shape: the root holds the three sections, once each and
\* in order; observations and suggestions are Observation and Suggestion
\* elements without children; comments are Comment elements holding a
\* Location and a Feedback and nothing else.
ValidShape(e) ==
    /\ [i \in 1..Len(e.children) |-> e.children[i].tag] = SectionTags
    /\ \A o \in {e.children[1].children[i] : i \in 1..Len(e.children[1].children)} :
         o.tag = "Observation" /\ o.children = <<>>
    /\ \A c \in {e.children[2].children[i] : i \in 1..Len(e.children[2].children)} :
         /\ c.tag = "Comment"
         /\ Len(c.children) = 2
         /\ {c.children[1].tag, c.children[2].tag} = {"Location", "Feedback"}
    /\ \A g \in {e.children[3].children[i] : i \in 1..Len(e.children[3].children)} :
         g.tag = "Suggestion" /\ g.children = <<>>

Validates == fromstring(review[1]).ok /\ ValidShape(Doc)

\* What the renderer needs of a reply: it parses, its root holds the three
\* sections, and every child of SpecificComments holds a Location and a
\* Feedback.
Renderable ==
    /\ fromstring(review[1]).ok
    /\ \A i \in 1..3 : HasChild(Doc, SectionTags[i])
    /\ \A c \in {ChildrenOf(Doc, "SpecificComments")[i] :
                    i \in 1..Len(ChildrenOf(Doc, "SpecificComments"))} :
         HasChild(c, "Location") /\ HasChild(c, "Feedback")

\* C5 as stated: the rendering succeeds for the documents that validate
\* against the three-section shape and for no other.
C5_OnlyValidShapeRenders == RenderOver => (Rendered <=> Validates)

\* C5 amended: the rendering succeeds exactly for the replies that parse and
\* whose root holds the three sections, every child of SpecificComments
\* holding a Location and a Feedback (the tags of the root, of the
\* observations, comments and suggestions, and further children are not
\* looked at); so it succeeds for every document of the three-section shape,
\* and when it fails no report is rendered.
C5_RenderableRenders ==
    RenderOver =>
        /\ Rendered <=> Renderable
        /\ Validates => Rendered
        /\ ~Rendered => final_report[1] = <<>>

\* A report rendered from a document that is not of the three-section shape.
C5_Witness == Rendered /\ ~Validates

Markers == {H2General, H2Comments, H2Suggestions, "</ul>", Closing}
Markup == Markers \cup {"<li>", "</li>", "<li><strong>", ":</strong> "}

\* The elements of seq that are in S, in order.
RECURSIVE Filter(_, _)
Filter(seq, S) ==
    IF seq = <<>> THEN <<>>
    ELSE (IF seq[1] \in S THEN <<seq[1]>> ELSE <<>>) \o Filter(Tail(seq), S)

\* The texts of the elements es, one after the other.
RECURSIVE Texts(_)
Texts(es) == IF es = <<>> THEN <<>> ELSE TextOf(es[1]) \o Texts(Tail(es))

\* Location then Feedback of each comment.
RECURSIVE CommentTexts(_)
CommentTexts(cs) ==
    IF cs = <<>> THEN <<>>
    ELSE Texts(<<cs[1].children[CHOOSE i \in 1..Len(cs[1].children) :
                                   cs[1].children[i].tag = "Location"],
                 cs[1].children[CHOOSE i \in 1..Len(cs[1].children) :
                                   cs[1].children[i].tag = "Feedback"]>>)
         \o CommentTexts(Tail(cs))

\* C10: a returned report starts with the template, continues with the
\* sections General Observations, Specific Comments and Improvement
\* Suggestions in that order, each a heading and one list, empty or not, ends
\* with '</div></body></html>', and holds the elements' texts as they are,
\* nothing escaped.
C10_ReportLayout ==
    Rendered =>
        /\ SubSeq(final_report[1], 1, Len(html_template)) = html_template
        /\ Filter(Body, Markers) =
              <<H2General, "</ul>", H2Comments, "</ul>", H2Suggestions, "</ul>", Closing>>
        /\ Body[1] = H2General
        /\ Body[Len(Body)] = Closing
        /\ Filter(Body, {x \in {Body[i] : i \in 1..Len(Body)} : x \notin Markup}) =
              Texts(ChildrenOf(Doc, "GeneralObservations"))
              \o CommentTexts(ChildrenOf(Doc, "SpecificComments"))
              \o Texts(ChildrenOf(Doc, "ImprovementSuggestions"))

\* A report with a text holding "<", an empty list and a template that is
\* not empty.
C10_Witness ==
    /\ Rendered
    /\ html_template # <<>>
    /\ \E i \in 1..Len(Body) : Body[i] = "<"
    /\ Len(SuggestionListItems) = 0

----------------------------------------------------------------------------
(* Claims about the pipeline (Spec) *)

Fs == <<dirExists, outFile>>

\* Run r is past its start, so fsBefore[r] is set.
Began(r) == pc[r] \notin {"idle", "start"}

\* No later run has begun: what the file system holds is what run r left.
Latest(r) == \A q \in Runs : q > r => ~Began(q)

\* The file-system and network calls of run r so far.
CallsOf(r) == {i \in 1..Len(events) : events[i].run = r}

\* C2: when the input path is no existing regular file, get_file raises
\* FileNotFoundError and the run does nothing more: no request is sent, the
\* output directory is not created and the report file is neither written nor
\* modified.
C2_NotFoundStopsRun ==
    \A r \in Runs :
        (~inputFile[r].isfile /\ Began(r)) =>
            /\ pc[r] \in {"get_file", "aborted"}
            /\ pc[r] = "aborted" => raised[r] \in {"OpenAIError", "FileNotFoundError"}
            /\ requests[r] = 0
            /\ CallsOf(r) = {}
            /\ Latest(r) => Fs = fsBefore[r]

\* The second run stopped by a missing input file, the report of the first
\* still on disk.
C2_Witness ==
    /\ raised[2] = "FileNotFoundError"
    /\ pc[1] = "done"
    /\ outFile = File(final_report[1])

ReplyOf(r) == fromstring(review[r])

\* The reply of run r is malformed: it does not parse, or a section is
\* missing, or a comment lacks its Location or its Feedback.
Malformed(r) ==
    \/ ~ReplyOf(r).ok
    \/ \E i \in 1..3 : ~HasChild(ReplyOf(r).root, SectionTags[i])
    \/ \E c \in {ChildrenOf(ReplyOf(r).root, "SpecificComments")[i] :
                    i \in 1..Len(ChildrenOf(ReplyOf(r).root, "SpecificComments"))} :
         ~HasChild(c, "Location") \/ ~HasChild(c, "Feedback")

\* Run r has its reply.
Replied(r) == Began(r) /\ pc[r] \notin {"get_file", "get_review"} /\ requests[r] = 1
              /\ raised[r] \notin {"APIError", "FileNotFoundError", "OpenAIError"}

\* C4: for a malformed reply generate_report fails before it creates the
\* output directory and before it opens code_review.html: the file system is
\* as the run found it.
C4_MalformedWritesNothing ==
    \A r \in Runs :
        (Replied(r) /\ Malformed(r)) =>
            /\ pc[r] \in {"generate_report", "aborted"}
            /\ pc[r] = "aborted" =>
                 raised[r] \in {"ParseError", "TypeError", "AttributeError"}
            /\ \A i \in CallsOf(r) : events[i].op = "request"
            /\ Latest(r) => Fs = fsBefore[r]

\* The second run failing on a comment without Feedback, the report of the
\* first still on disk.
C4_Witness ==
    /\ raised[2] = "AttributeError"
    /\ pc[1] = "done"
    /\ outFile = File(final_report[1])

\* C6: after two successive successful runs on the same output directory,
\* code_review.html is exactly the report rendered from the second run's
\* review.
C6_SecondReportOnly ==
    (pc[1] = "done" /\ pc[2] = "done") =>
        /\ outFile = File(final_report[2])
        /\ final_report[2] = Report(html_template,
                                    find(ReplyOf(2).root, "GeneralObservations")[1],
                                    find(ReplyOf(2).root, "SpecificComments")[1],
                                    find(ReplyOf(2).root, "ImprovementSuggestions")[1])

\* Two runs done, the second report different from the first and shorter.
C6_Witness ==
    /\ pc[1] = "done" /\ pc[2] = "done"
    /\ review[1] # review[2]
    /\ Len(final_report[2]) < Len(final_report[1])

\* C7 as stated: a run that fails in any step leaves no report written and no
\* partial output: code_review.html is as the run found it.
C7_AbortLeavesNoOutput ==
    \A r \in Runs : (pc[r] = "aborted" /\ Latest(r)) => outFile = fsBefore[r][2]

IsProperPrefix(p, q) == Len(p) < Len(q) /\ p = SubSeq(q, 1, Len(p))

\* C7 amended: a run that fails in client creation, load, review request or
\* parse/render leaves the file system as it found it; a run that fails in
\* directory creation leaves no output directory and code_review.html as it
\* found it; a run that fails opening the file leaves the file as it found it
\* (the directory may be new); a run that fails in the file write leaves
\* code_review.html holding a proper prefix of its report and nothing else.
\* No failed run leaves its whole report.
C7_AbortLeavesAtMostPrefix ==
    \A r \in Runs :
        (pc[r] = "aborted" /\ Latest(r)) =>
            CASE raised[r] = "OSError in write" ->
                    /\ outFile.isfile
                    /\ IsProperPrefix(outFile.data, final_report[r])
              [] raised[r] = "OSError in open" ->
                    /\ outFile = fsBefore[r][2]
                    /\ dirExists
              [] raised[r] = "OSError in makedirs" ->
                    /\ outFile = fsBefore[r][2]
                    /\ ~dirExists
              [] OTHER -> Fs = fsBefore[r]

\* A second run that failed in the write, with part of its report where the
\* first run's report was.
C7_Witness ==
    /\ pc[1] = "done"
    /\ raised[2] = "OSError in write"
    /\ outFile.data # <<>>
    /\ outFile.data # final_report[1]

\* The steps of a run in order; a run moves one step forward, or to aborted.
StepOrder == <<"start", "get_file", "get_review", "generate_report", "exists",
               "makedirs", "open", "write", "written", "done">>

Position(p) == CHOOSE i \in 1..Len(StepOrder) : StepOrder[i] = p

\* The state of the linear machine a run stands in.
MachineState(p) ==
    CASE p \in {"idle", "start", "get_file"} -> "Start"
      [] p = "get_review" -> "Loaded"
      [] p = "generate_report" -> "Reviewed"
      [] p \in {"exists", "makedirs", "open", "write"} -> "Rendered"
      [] p = "written" -> "Written"
      [] p = "done" -> "Done"
      [] p = "aborted" -> "Aborted"

MachineOrder == <<"Start", "Loaded", "Reviewed", "Rendered", "Written", "Done">>

\* C8: a run goes Start -> Loaded -> Reviewed -> Rendered -> Written -> Done,
\* one state at a time and never back; a failure takes it to Aborted, where it
\* stays; it sends at most one request; and it is Done only with every step
\* succeeded: the file loaded, one request answered, the report rendered and
\* written.
C8_LinearMachine ==
    [][\A r \in Runs :
          LET a == MachineState(pc[r])
              b == MachineState(pc'[r])
          IN /\ a # b =>
                  \/ b = "Aborted" /\ a # "Done" /\ raised'[r] # "none"
                  \/ \E i \in 1..5 : a = MachineOrder[i] /\ b = MachineOrder[i + 1]
             /\ (pc[r] # pc'[r] /\ b # "Aborted" /\ pc[r] # "idle") =>
                  Position(pc'[r]) > Position(pc[r])
             /\ requests'[r] <= 1
             /\ requests'[r] # requests[r] => a = "Loaded"
             /\ b = "Done" =>
                  /\ raised'[r] = "none"
                  /\ inputFile[r].isfile
                  /\ file_content'[r] = get_file(inputFile[r])
                  /\ requests'[r] = 1
                  /\ final_report'[r] = generate_html(review'[r], html_template).html
                  /\ generate_html(review'[r], html_template).err = "none"
                  /\ \E i \in CallsOf(r)' : events'[i].op = "write"
      ]_vars

\* One run done and the next aborted after its request.
C8_Witness ==
    /\ pc[1] = "done"
    /\ pc[2] = "aborted"
    /\ requests[2] = 1

----------------------------------------------------------------------------
(* Claims about two instances at once (SpecConcurrent) *)

\* The position of the last call op of run r in events, 0 if there is none.
LastCall(r, op) ==
    LET S == {i \in 1..Len(events) : events[i] = Event(r, op)}
    IN IF S = {} THEN 0 ELSE CHOOSE i \in S : \A j \in S : j <= i

BothWrote == \A r \in Runs : pc[r] \in {"written", "done"}

\* C9: nothing guards the writer step against another instance. A run whose
\* makedirs raises FileExistsError found the directory absent and the other
\* run created it in between; and when both runs opened and wrote
\* code_review.html, its content is decided by the order of the opens and
\* writes: it starts with the report of the run that wrote last, and goes on
\* with the rest of the other report when that one is longer and was written
\* after the last writer's open.
C9_WriteOrderDecides ==
    /\ \A r \in Runs :
         raised[r] = "FileExistsError" =>
            \E q \in Runs \ {r} : LastCall(q, "makedirs") > LastCall(r, "exists")
    /\ BothWrote =>
         LET last == CHOOSE r \in Runs :
                        \A q \in Runs : LastCall(q, "write") <= LastCall(r, "write")
             first == CHOOSE r \in Runs : r # last
         IN outFile.data =
              IF LastCall(last, "open") > LastCall(first, "write")
              THEN final_report[last]
              ELSE final_report[last]
                   \o SubSeq(final_report[first], Len(final_report[last]) + 1,
                             Len(final_report[first]))

\* Both runs wrote; the file holds neither report but a mixture, and the run
\* that wrote last is the one whose review request went out first.
C9_Witness ==
    /\ BothWrote
    /\ outFile.data \notin {final_report[1], final_report[2]}
    /\ \E last \in Runs :
         /\ \A q \in Runs : LastCall(q, "write") <= LastCall(last, "write")
         /\ \A q \in Runs \ {last} : LastCall(last, "request") < LastCall(q, "request")

====
